---- MODULE Spec2Model ----
(***************************************************************************)
(* Jira Cloud REST client (go-atlassian): the FilterShare, ProjectVersion, *)
(* IssueMetadata and Watcher services.  Every service method validates its *)
(* inputs, builds an endpoint string, builds a request through the shared  *)
(* client, performs one send and returns (result, response, err).          *)
(*                                                                         *)
(* Go strings are modelled as sequences of one-character strings, so that  *)
(* formatting, joining, sorting and escaping are computed as the code      *)
(* computes them.                                                          *)
(***************************************************************************)
EXTENDS Integers, Sequences, FiniteSets, TLC

VARIABLES client, calls

vars == <<client, calls>>

----------------------------------------------------------------------------
(* Strings and the standard-library functions the services call.           *)

\* The printable ASCII characters in byte order; Printable[i] has byte 31 + i
\* (byte 96 is written "BACKTICK").
Printable ==
    <<" ","!","\"","#","$","%","&","'","(",")","*","+",",","-",".","/","0","1","2","3","4","5","6","7","8","9",":",";","<","=",">","?","@","A","B","C","D","E","F","G","H","I","J","K","L","M","N","O","P","Q","R","S","T","U","V","W","X","Y","Z","[","\\","]","^","_","BACKTICK","a","b","c","d","e","f","g","h","i","j","k","l","m","n","o","p","q","r","s","t","u","v","w","x","y","z","{","|","}","~">>

\* The byte value of each character (Go compares strings byte by byte).
ByteOf ==
    [c \in {Printable[i] : i \in 1..Len(Printable)} |->
        31 + (CHOOSE i \in 1..Len(Printable) : Printable[i] = c)]

Ord(c) == ByteOf[c]

HexDigits == <<"0","1","2","3","4","5","6","7","8","9","A","B","C","D","E","F">>

DecDigits == <<"0","1","2","3","4","5","6","7","8","9">>

MinOf(S) == CHOOSE i \in S : \A j \in S : i <= j

MinOrZero(S) == IF S = {} THEN 0 ELSE MinOf(S)

ShorterLen(a, b) == IF Len(a) < Len(b) THEN Len(a) ELSE Len(b)

\* a < b given the positions where a and b differ within the shorter length
LessAt(a, b, diffs) ==
    IF diffs = {} THEN Len(a) < Len(b)
    ELSE Ord(a[MinOf(diffs)]) < Ord(b[MinOf(diffs)])

\* a < b in Go's string order (sort.Strings inside url.Values.Encode).
StrLess(a, b) == LessAt(a, b, {i \in 1..ShorterLen(a, b) : a[i] # b[i]})

\* strings.Contains(s, sub)
Contains(s, sub) ==
    \E i \in 0..(Len(s) - Len(sub)) : SubSeq(s, i + 1, i + Len(sub)) = sub

\* strings.HasPrefix(s, p)
HasPrefix(s, p) == Len(p) <= Len(s) /\ SubSeq(s, 1, Len(p)) = p

\* strings.Join(elems, sep)
RECURSIVE Join(_, _)
Join(elems, sep) ==
    IF Len(elems) = 0 THEN <<>>
    ELSE IF Len(elems) = 1 THEN elems[1]
    ELSE elems[1] \o sep \o Join(Tail(elems), sep)

\* The decimal digits of a natural number.
RECURSIVE Digits(_)
Digits(n) ==
    IF n < 10 THEN <<DecDigits[n + 1]>>
    ELSE Digits(n \div 10) \o <<DecDigits[(n % 10) + 1]>>

\* strconv.Itoa(n), and fmt's %v of an int.
Itoa(n) == IF n < 0 THEN <<"-">> \o Digits(0 - n) ELSE Digits(n)

\* The bytes url.QueryEscape leaves as they are: letters, digits, - _ . ~
Unreserved ==
    {c \in DOMAIN ByteOf : ByteOf[c] \in (48..57) \cup (65..90) \cup (97..122)}
        \cup {"-", "_", ".", "~"}

IsUnreserved(c) == c \in Unreserved

\* %XX in upper-case hex
PercentHex(byte) == <<"%", HexDigits[(byte \div 16) + 1], HexDigits[(byte % 16) + 1]>>

\* url.QueryEscape of one byte: unreserved bytes stay, a space becomes '+',
\* every other byte becomes %XX.
EscapeChar(c) ==
    IF IsUnreserved(c) THEN <<c>>
    ELSE IF c = " " THEN <<"+">>
    ELSE PercentHex(Ord(c))

\* url.QueryEscape(s)
RECURSIVE QueryEscape(_)
QueryEscape(s) ==
    IF Len(s) = 0 THEN <<>> ELSE EscapeChar(Head(s)) \o QueryEscape(Tail(s))

\* url.Values{} : a map from key to the list of its values.
EmptyValues == [k \in {} |-> <<>>]

\* url.Values.Add(key, value): appends value to the key's list.
ValuesAdd(params, key, value) ==
    IF key \in DOMAIN params
    THEN [params EXCEPT ![key] = Append(@, value)]
    ELSE [k \in (DOMAIN params) \cup {key} |->
            IF k = key THEN <<value>> ELSE params[k]]

\* The least key of a non-empty set of keys.
Least(S) == CHOOSE k \in S : \A j \in S : j = k \/ StrLess(k, j)

\* The keys of a url.Values in sorted order.
RECURSIVE SortKeys(_)
RECURSIVE SortKeysFrom(_, _)
SortKeysFrom(m, S) == <<m>> \o SortKeys(S \ {m})

SortKeys(S) == IF S = {} THEN <<>> ELSE SortKeysFrom(Least(S), S)

\* a and b joined by '&', when neither is empty
JoinAmp(a, b) ==
    IF Len(b) = 0 THEN a ELSE IF Len(a) = 0 THEN b ELSE a \o <<"&">> \o b

\* key=value&key=value for the values of one key.
RECURSIVE EncodeKey(_, _)
EncodeKey(key, values) ==
    IF Len(values) = 0 THEN <<>>
    ELSE JoinAmp(QueryEscape(key) \o <<"=">> \o QueryEscape(Head(values)),
                 EncodeKey(key, Tail(values)))

RECURSIVE EncodeKeys(_, _)
EncodeKeys(params, keys) ==
    IF Len(keys) = 0 THEN <<>>
    ELSE JoinAmp(EncodeKey(Head(keys), params[Head(keys)]),
                 EncodeKeys(params, Tail(keys)))

\* url.Values.Encode(): "URL encoded" form sorted by key.
Encode(params) == EncodeKeys(params, SortKeys(DOMAIN params))

----------------------------------------------------------------------------
(* String constants of the source.                                         *)

\* rest/api/2/filter/defaultShareScope
pathDefaultShareScope ==
    <<"r","e","s","t","/","a","p","i","/","2","/","f","i","l","t","e","r","/","d","e","f","a","u","l","t","S","h","a","r","e","S","c","o","p","e">>
\* rest/api/2/filter/
pathFilter ==
    <<"r","e","s","t","/","a","p","i","/","2","/","f","i","l","t","e","r","/">>
\* /permission
pathPermission ==
    <<"/","p","e","r","m","i","s","s","i","o","n">>
\* /permission/
pathPermissionSlash ==
    <<"/","p","e","r","m","i","s","s","i","o","n","/">>
\* rest/api/2/project/
pathProject ==
    <<"r","e","s","t","/","a","p","i","/","2","/","p","r","o","j","e","c","t","/">>
\* /versions
pathVersions ==
    <<"/","v","e","r","s","i","o","n","s">>
\* /version?
pathVersionQ ==
    <<"/","v","e","r","s","i","o","n","?">>
\* rest/api/2/version
pathVersion ==
    <<"r","e","s","t","/","a","p","i","/","2","/","v","e","r","s","i","o","n">>
\* rest/api/2/version/
pathVersionSlash ==
    <<"r","e","s","t","/","a","p","i","/","2","/","v","e","r","s","i","o","n","/">>
\* /mergeto/
pathMergeTo ==
    <<"/","m","e","r","g","e","t","o","/">>
\* /relatedIssueCounts
pathRelatedIssueCounts ==
    <<"/","r","e","l","a","t","e","d","I","s","s","u","e","C","o","u","n","t","s">>
\* /unresolvedIssueCount
pathUnresolvedIssueCount ==
    <<"/","u","n","r","e","s","o","l","v","e","d","I","s","s","u","e","C","o","u","n","t">>
\* rest/api/2/issue/
pathIssue2 ==
    <<"r","e","s","t","/","a","p","i","/","2","/","i","s","s","u","e","/">>
\* /editmeta
pathEditMeta ==
    <<"/","e","d","i","t","m","e","t","a">>
\* rest/api/2/issue/createmeta
pathCreateMeta ==
    <<"r","e","s","t","/","a","p","i","/","2","/","i","s","s","u","e","/","c","r","e","a","t","e","m","e","t","a">>
\* rest/api/3/issue/
pathIssue3 ==
    <<"r","e","s","t","/","a","p","i","/","3","/","i","s","s","u","e","/">>
\* /watchers
pathWatchers ==
    <<"/","w","a","t","c","h","e","r","s">>
\* startAt
kStartAt ==
    <<"s","t","a","r","t","A","t">>
\* maxResults
kMaxResults ==
    <<"m","a","x","R","e","s","u","l","t","s">>
\* expand
kExpand ==
    <<"e","x","p","a","n","d">>
\* query
kQuery ==
    <<"q","u","e","r","y">>
\* status
kStatus ==
    <<"s","t","a","t","u","s">>
\* orderBy
kOrderBy ==
    <<"o","r","d","e","r","B","y">>
\* overrideEditableFlag
kOverrideEditableFlag ==
    <<"o","v","e","r","r","i","d","e","E","d","i","t","a","b","l","e","F","l","a","g">>
\* overrideScreenSecurity
kOverrideScreenSecurity ==
    <<"o","v","e","r","r","i","d","e","S","c","r","e","e","n","S","e","c","u","r","i","t","y">>
\* projectIds
kProjectIds ==
    <<"p","r","o","j","e","c","t","I","d","s">>
\* projectKeys
kProjectKeys ==
    <<"p","r","o","j","e","c","t","K","e","y","s">>
\* issuetypeIds
kIssuetypeIds ==
    <<"i","s","s","u","e","t","y","p","e","I","d","s">>
\* issuetypeNames
kIssuetypeNames ==
    <<"i","s","s","u","e","t","y","p","e","N","a","m","e","s">>
\* true
vTrue ==
    <<"t","r","u","e">>
\* GLOBAL
scopeGLOBAL ==
    <<"G","L","O","B","A","L">>
\* AUTHENTICATED
scopeAUTHENTICATED ==
    <<"A","U","T","H","E","N","T","I","C","A","T","E","D">>
\* PRIVATE
scopePRIVATE ==
    <<"P","R","I","V","A","T","E">>
\* global
scopeLower ==
    <<"g","l","o","b","a","l">>
\* PUBLIC
scopePUBLIC ==
    <<"P","U","B","L","I","C">>
\* scope
kScope ==
    <<"s","c","o","p","e">>
\* type
kType ==
    <<"t","y","p","e">>
\* projectId
kProjectId ==
    <<"p","r","o","j","e","c","t","I","d">>
\* groupname
kGroupName ==
    <<"g","r","o","u","p","n","a","m","e">>
\* projectRoleId
kProjectRoleId ==
    <<"p","r","o","j","e","c","t","R","o","l","e","I","d">>
\* name
kName ==
    <<"n","a","m","e">>
\* group
vGroup ==
    <<"g","r","o","u","p">>
\* eng
vEng ==
    <<"e","n","g">>
\* A
idA ==
    <<"A">>
\* 10
idTen ==
    <<"1","0">>
\* %
idPercent ==
    <<"%">>
\* op
vOp ==
    <<"o","p">>
\* is
vIs ==
    <<"i","s">>
\* q 1
vQ ==
    <<"q"," ","1">>
\* released
vReleased ==
    <<"r","e","l","e","a","s","e","d">>
\* -sequence
vSeq ==
    <<"-","s","e","q","u","e","n","c","e">>
\* 1
vOne ==
    <<"1">>
\* 2
vTwo ==
    <<"2">>
\* Bug
vBug ==
    <<"B","u","g">>
\* {"scope":"GLOBAL"}
bodyScopeGlobal ==
    <<"{","\"","s","c","o","p","e","\"",":","\"","G","L","O","B","A","L","\"","}">>
\* {"scope":"PRIVATE"}
bodyScopePrivate ==
    <<"{","\"","s","c","o","p","e","\"",":","\"","P","R","I","V","A","T","E","\"","}">>
\* []
bodyArray ==
    <<"[","]">>
\* null
bodyNull ==
    <<"n","u","l","l">>

\* {"isWatching":true,"watchCount":2,"watchers":[{"accountId":"a"}]}
bodyWatchers ==
    <<"{","\"","i","s","W","a","t","c","h","i","n","g","\"",":","t","r","u",
      "e",",","\"","w","a","t","c","h","C","o","u","n","t","\"",":","2",",",
      "\"","w","a","t","c","h","e","r","s","\"",":","[","{","\"","a","c",
      "c","o","u","n","t","I","d","\"",":","\"","a","\"","}","]","}">>

\* {"watchers":[{"self":"a","active":true},{"self":"b"}],"Watchers":[{"accountId":"c"}]}
bodyWatchersTwice ==
    <<"{","\"","w","a","t","c","h","e","r","s","\"",":","[","{","\"","s",
      "e","l","f","\"",":","\"","a","\"",",","\"","a","c","t","i","v","e",
      "\"",":","t","r","u","e","}",",","{","\"","s","e","l","f","\"",":",
      "\"","b","\"","}","]",",","\"","W","a","t","c","h","e","r","s","\"",
      ":","[","{","\"","a","c","c","o","u","n","t","I","d","\"",":","\"",
      "c","\"","}","]","}">>

\* <html>
bodyHTML ==
    <<"<","h","t","m","l",">">>

----------------------------------------------------------------------------
(* Values shared by every service: nil pointers, errors, results.          *)

NoErr == "nil"

ErrNoProjectIDError == "ErrNoProjectIDError"

ErrNoVersionIDError == "ErrNoVersionIDError"

ErrNoIssueKeyOrIDError == "ErrNoIssueKeyOrIDError"

ErrInvalidScope ==
    "invalid scope, please provide one of the following: GLOBAL,AUTHENTICATED,PRIVATE"

ErrStructureNotParsed == "structure not parsed"

ErrURLParse == "URL not parsed"

ErrTransport == "transport error"

ErrStatus == "request failed"

ErrDecode == "json decode error"

\* A nil pointer, nil slice, nil reader or nil envelope.
Nil == [nil |-> TRUE]

\* A decoded struct behind a non-nil pointer: the JSON fields it was given.
StructResult(fields) == [nil |-> FALSE, shape |-> "struct", fields |-> fields]

\* A decoded (non-nil) slice of n elements.
SliceResult(n) == [nil |-> FALSE, shape |-> "slice", len |-> n]

NoFields == [k \in {} |-> <<>>]

----------------------------------------------------------------------------
(* JSON: json.Marshal of the payloads, json.Unmarshal and gjson.ParseBytes  *)
(* of the reply bodies.                                                    *)

Quote(s) == <<"\"">> \o s \o <<"\"">>

\* one field in front of the rest, unless it is empty and tagged omitempty
MarshalField(f, rest) ==
    IF f.omitempty /\ Len(f.value) = 0 THEN rest
    ELSE << Quote(f.key) \o <<":">> \o Quote(f.value) >> \o rest

\* json.Marshal of a struct of string fields, each [key, value, omitempty].
RECURSIVE MarshalFields(_)
MarshalFields(fs) ==
    IF Len(fs) = 0 THEN <<>> ELSE MarshalField(Head(fs), MarshalFields(Tail(fs)))

MarshalJSON(fs) == <<"{">> \o Join(MarshalFields(fs), <<",">>) \o <<"}">>

\* The first index of c in b at or after from; 0 when there is none.
IndexFrom(b, from, c) == MinOrZero({i \in from..Len(b) : b[i] = c})

\* The character of b at position i; "" before the start and past the end.
At(b, i) == IF i >= 1 /\ i <= Len(b) THEN b[i] ELSE ""

JSONDigits == {"0","1","2","3","4","5","6","7","8","9"}

\* The white space of JSON: space, tab, line feed, carriage return.
WhiteSpace == {" ", "\t", "\n", "\r"}

\* The control characters a string can hold here; none may be in a JSON string.
ControlChars == {"\t", "\n", "\r", "\f"}

RECURSIVE SkipSpace(_, _)
SkipSpace(b, i) == IF At(b, i) \in WhiteSpace THEN SkipSpace(b, i + 1) ELSE i

RECURSIVE DigitsEnd(_, _)
DigitsEnd(b, i) == IF At(b, i) \in JSONDigits THEN DigitsEnd(b, i + 1) ELSE i

\* The values of JSON.
JNull == [kind |-> "null"]

JBool(v) == [kind |-> "bool", bool |-> v]

JNumber(text) == [kind |-> "number", text |-> text]

JString(str) == [kind |-> "string", str |-> str]

JArray(elems) == [kind |-> "array", elems |-> elems]

JObject(members) == [kind |-> "object", members |-> members]

\* A value read from the text, ending just before pos; or no value.
Parsed(pos, value) == [ok |-> TRUE, pos |-> pos, value |-> value]

NotParsed == [ok |-> FALSE, pos |-> 0, value |-> JNull]

\* number = [-] int [frac] [exp]; each operator gives the position after its
\* part, 0 when the text is no number.
IntEnd(b, i) ==
    IF At(b, i) = "0" THEN i + 1
    ELSE IF At(b, i) \in JSONDigits THEN DigitsEnd(b, i)
    ELSE 0

FracEnd(b, k) ==
    IF k = 0 THEN 0
    ELSE IF At(b, k) # "." THEN k
    ELSE IF At(b, k + 1) \in JSONDigits THEN DigitsEnd(b, k + 1)
    ELSE 0

ExpDigitsEnd(b, m) == IF At(b, m) \in JSONDigits THEN DigitsEnd(b, m) ELSE 0

ExpEnd(b, k) ==
    IF k = 0 THEN 0
    ELSE IF At(b, k) \notin {"e", "E"} THEN k
    ELSE ExpDigitsEnd(b, IF At(b, k + 1) \in {"+", "-"} THEN k + 2 ELSE k + 1)

NumberEnd(b, i) == ExpEnd(b, FracEnd(b, IntEnd(b, IF At(b, i) = "-" THEN i + 1 ELSE i)))

ParsedNumber(b, i, end) ==
    IF end = 0 THEN NotParsed ELSE Parsed(end, JNumber(SubSeq(b, i, end - 1)))

\* true, false, null
ParsedLiteral(b, i, text, value) ==
    IF i + Len(text) - 1 <= Len(b) /\ SubSeq(b, i, i + Len(text) - 1) = text
    THEN Parsed(i + Len(text), value)
    ELSE NotParsed

HexValue ==
    [c \in {"0","1","2","3","4","5","6","7","8","9",
            "A","B","C","D","E","F","a","b","c","d","e","f"} |->
        CASE c = "0" -> 0 [] c = "1" -> 1 [] c = "2" -> 2 [] c = "3" -> 3
          [] c = "4" -> 4 [] c = "5" -> 5 [] c = "6" -> 6 [] c = "7" -> 7
          [] c = "8" -> 8 [] c = "9" -> 9 [] c \in {"A", "a"} -> 10
          [] c \in {"B", "b"} -> 11 [] c \in {"C", "c"} -> 12
          [] c \in {"D", "d"} -> 13 [] c \in {"E", "e"} -> 14
          [] c \in {"F", "f"} -> 15]

\* \uXXXX at i: the four characters after the "\u" are hex digits
IsU4(b, i) ==
    /\ At(b, i) = "\\"
    /\ At(b, i + 1) = "u"
    /\ \A k \in (i + 2)..(i + 5) : At(b, k) \in DOMAIN HexValue

U4(b, i) ==
    HexValue[b[i + 2]] * 4096 + HexValue[b[i + 3]] * 256
        + HexValue[b[i + 4]] * 16 + HexValue[b[i + 5]]

RECURSIVE HexOf(_)
HexOf(n) == IF n < 16 THEN HexDigits[n + 1] ELSE HexOf(n \div 16) \o HexDigits[(n % 16) + 1]

\* The character of a code point: itself when it is printable ASCII or one of
\* the control characters above, and otherwise named U+ and its number in hex.
Rune(cp) ==
    IF cp \in 32..126 THEN Printable[cp - 31]
    ELSE IF cp = 9 THEN "\t"
    ELSE IF cp = 10 THEN "\n"
    ELSE IF cp = 12 THEN "\f"
    ELSE IF cp = 13 THEN "\r"
    ELSE "U+" \o HexOf(cp)

IsHighSurrogate(cp) == cp >= 55296 /\ cp <= 56319

IsLowSurrogate(cp) == cp >= 56320 /\ cp <= 57343

\* \uXXXX at i is the first half of a surrogate pair whose second half follows
IsPair(b, i) ==
    /\ IsHighSurrogate(U4(b, i))
    /\ IsU4(b, i + 6)
    /\ IsLowSurrogate(U4(b, i + 6))

\* The code point of the \uXXXX at i that is no pair: a lone surrogate is
\* replaced by U+FFFD.
LoneRune(cp) ==
    IF IsHighSurrogate(cp) \/ IsLowSurrogate(cp) THEN Rune(65533) ELSE Rune(cp)

PairRune(hi, lo) == Rune(65536 + (hi - 55296) * 1024 + (lo - 56320))

\* The character after a backslash and what it stands for.
SimpleEscapes ==
    [c \in {"\"", "\\", "/", "b", "f", "n", "r", "t"} |->
        CASE c = "b" -> Rune(8) [] c = "f" -> "\f" [] c = "n" -> "\n"
          [] c = "r" -> "\r" [] c = "t" -> "\t" [] OTHER -> c]

\* A string whose opening quote is before i; acc is the text decoded so far.
RECURSIVE StringFrom(_, _, _)
StringFrom(b, i, acc) ==
    IF At(b, i) = "" \/ At(b, i) \in ControlChars THEN NotParsed
    ELSE IF b[i] = "\"" THEN Parsed(i + 1, JString(acc))
    ELSE IF b[i] # "\\" THEN StringFrom(b, i + 1, Append(acc, b[i]))
    ELSE IF At(b, i + 1) \in DOMAIN SimpleEscapes
    THEN StringFrom(b, i + 2, Append(acc, SimpleEscapes[b[i + 1]]))
    ELSE IF ~IsU4(b, i) THEN NotParsed
    ELSE IF IsPair(b, i)
    THEN StringFrom(b, i + 12, Append(acc, PairRune(U4(b, i), U4(b, i + 6))))
    ELSE StringFrom(b, i + 6, Append(acc, LoneRune(U4(b, i))))

RECURSIVE ValueAt(_, _)
RECURSIVE MembersFrom(_, _, _)
RECURSIVE ElementsFrom(_, _, _)

\* after a member of an object: a comma and the next member, or the end
NextMember(b, i, acc) ==
    IF At(b, i) = "," THEN MembersFrom(b, SkipSpace(b, i + 1), acc)
    ELSE IF At(b, i) = "}" THEN Parsed(i + 1, JObject(acc))
    ELSE NotParsed

AfterMember(b, key, val, acc) ==
    IF ~val.ok THEN NotParsed
    ELSE NextMember(b, SkipSpace(b, val.pos),
                    Append(acc, [key |-> key, value |-> val.value]))

AfterColon(b, key, i, acc) ==
    IF At(b, i) # ":" THEN NotParsed
    ELSE AfterMember(b, key, ValueAt(b, SkipSpace(b, i + 1)), acc)

AfterKey(b, key, acc) ==
    IF ~key.ok THEN NotParsed
    ELSE AfterColon(b, key.value.str, SkipSpace(b, key.pos), acc)

\* the members of an object, the next one starting at i
MembersFrom(b, i, acc) ==
    IF At(b, i) # "\"" THEN NotParsed
    ELSE AfterKey(b, StringFrom(b, i + 1, <<>>), acc)

\* after an element of an array: a comma and the next element, or the end
NextElement(b, i, acc) ==
    IF At(b, i) = "," THEN ElementsFrom(b, SkipSpace(b, i + 1), acc)
    ELSE IF At(b, i) = "]" THEN Parsed(i + 1, JArray(acc))
    ELSE NotParsed

AfterElement(b, val, acc) ==
    IF ~val.ok THEN NotParsed
    ELSE NextElement(b, SkipSpace(b, val.pos), Append(acc, val.value))

\* the elements of an array, the next one starting at i
ElementsFrom(b, i, acc) == AfterElement(b, ValueAt(b, i), acc)

\* an object or an array whose opening bracket is before i
ObjectFrom(b, i) ==
    IF At(b, i) = "}" THEN Parsed(i + 1, JObject(<<>>)) ELSE MembersFrom(b, i, <<>>)

ArrayFrom(b, i) ==
    IF At(b, i) = "]" THEN Parsed(i + 1, JArray(<<>>)) ELSE ElementsFrom(b, i, <<>>)

\* the JSON value that starts at i
ValueAt(b, i) ==
    IF At(b, i) = "{" THEN ObjectFrom(b, SkipSpace(b, i + 1))
    ELSE IF At(b, i) = "[" THEN ArrayFrom(b, SkipSpace(b, i + 1))
    ELSE IF At(b, i) = "\"" THEN StringFrom(b, i + 1, <<>>)
    ELSE IF At(b, i) = "t" THEN ParsedLiteral(b, i, <<"t","r","u","e">>, JBool(TRUE))
    ELSE IF At(b, i) = "f" THEN ParsedLiteral(b, i, <<"f","a","l","s","e">>, JBool(FALSE))
    ELSE IF At(b, i) = "n" THEN ParsedLiteral(b, i, <<"n","u","l","l">>, JNull)
    ELSE ParsedNumber(b, i, NumberEnd(b, i))

InvalidJSON == [valid |-> FALSE, value |-> JNull]

\* the text is one value with nothing but white space around it
WholeText(b, p) ==
    IF p.ok /\ SkipSpace(b, p.pos) = Len(b) + 1
    THEN [valid |-> TRUE, value |-> p.value]
    ELSE InvalidJSON

\* The JSON value of the text b, or a syntax error (encoding/json's checkValid
\* and its reading of the value).
ParseJSON(b) == WholeText(b, ValueAt(b, SkipSpace(b, 1)))

\* The fields of a struct that are not zero, by JSON name.
With(fields, name, value) ==
    [k \in DOMAIN fields \cup {name} |-> IF k = name THEN value ELSE fields[k]]

Without(fields, name) == [k \in DOMAIN fields \ {name} |-> fields[k]]

\* the field holds value, or its zero value
Store(fields, name, value, zero) ==
    IF value = zero THEN Without(fields, name) ELSE With(fields, name, value)

\* IssueWatcherScheme.Watchers: the fields of its anonymous element struct
WatcherFields ==
    [open |-> FALSE,
     fields |-> <<[name |-> <<"s","e","l","f">>, type |-> "string"],
                  [name |-> <<"a","c","c","o","u","n","t","I","d">>, type |-> "string"],
                  [name |-> <<"d","i","s","p","l","a","y","N","a","m","e">>,
                   type |-> "string"],
                  [name |-> <<"a","c","t","i","v","e">>, type |-> "bool"]>>]

\* IssueWatcherScheme: its fields by JSON tag
IssueWatcherScheme ==
    [open |-> FALSE,
     fields |-> <<[name |-> <<"s","e","l","f">>, type |-> "string"],
                  [name |-> <<"i","s","W","a","t","c","h","i","n","g">>, type |-> "bool"],
                  [name |-> <<"w","a","t","c","h","C","o","u","n","t">>, type |-> "int"],
                  [name |-> <<"w","a","t","c","h","e","r","s">>, type |-> "structs"]>>]

\* ShareFilterScopeScheme: its field by JSON tag
ShareFilterScopeFields ==
    [open |-> FALSE, fields |-> <<[name |-> kScope, type |-> "string"]>>]

\* A struct type that is not in this repository's files here (models.*,
\* ResponseScheme): every member of the object is kept as it was parsed.
OpenStruct == [open |-> TRUE, fields |-> <<>>]

\* encoding/json matches a key to a field name exactly or, failing that,
\* without regard to case (U+017F and U+212A fold to s and k).
FoldChar(c) ==
    IF c = "U+17F" THEN "S"
    ELSE IF c = "U+212A" THEN "K"
    ELSE IF c \in DOMAIN ByteOf /\ ByteOf[c] \in 97..122 THEN Printable[ByteOf[c] - 63]
    ELSE c

FoldName(s) == [i \in 1..Len(s) |-> FoldChar(s[i])]

\* the index of the field a key names; 0 when it names none
FieldByFold(fs, key) == MinOrZero({i \in 1..Len(fs) : FoldName(fs[i].name) = FoldName(key)})

FieldOf(fs, key) ==
    IF \E i \in 1..Len(fs) : fs[i].name = key
    THEN MinOf({i \in 1..Len(fs) : fs[i].name = key})
    ELSE FieldByFold(fs, key)

MaxInt64 == <<"9","2","2","3","3","7","2","0","3","6","8","5","4","7","7","5","8","0","7">>

MinInt64 == <<"-","9","2","2","3","3","7","2","0","3","6","8","5","4","7","7","5","8","0","8">>

\* a and b are digit strings of one sign: a is no longer than b and not after it
NotAbove(a, b) == Len(a) < Len(b) \/ (Len(a) = Len(b) /\ ~StrLess(b, a))

\* the number literal is an integer that an int (64 bits) holds
IsInt64(text) ==
    /\ \A i \in 1..Len(text) : text[i] \in JSONDigits \/ (i = 1 /\ text[i] = "-")
    /\ IF text[1] = "-" THEN NotAbove(text, MinInt64) ELSE NotAbove(text, MaxInt64)

\* the int a number literal is read as (-0 is 0)
IntOf(text) == IF text = <<"-", "0">> THEN <<"0">> ELSE text

\* a decoding so far: the first error, the fields set and, by slice field, the
\* elements the slice's array still holds past the slice's length
Failed(st) == [st EXCEPT !.err = ErrDecode]

Stored(st, name, value, zero) ==
    [st EXCEPT !.fields = Store(@, name, value, zero)]

\* what the array of slice field `name` holds: the slice's elements, then the
\* elements an earlier, longer decoding left behind them
Held(st, name) == IF name \in DOMAIN st.fields THEN st.fields[name] ELSE <<>>

Spare(st, name) == IF name \in DOMAIN st.spare THEN st.spare[name] ELSE <<>>

InArray(st, name) == Held(st, name) \o Spare(st, name)

\* the element decoded into at index i: the one the array holds there, or a
\* zero struct in new memory
ElementAt(old, i) == IF i <= Len(old) THEN old[i] ELSE NoFields

RECURSIVE DecodeMembers(_, _, _)
RECURSIVE DecodeElements(_, _, _)

\* the elements of an array into a slice of WatcherFields structs whose array
\* holds `old`: element i is decoded into old[i] as it stands (nothing is
\* zeroed first); null and a value of another kind leave it as it is
ElementDecoded(st, rest) ==
    [err |-> IF st.err # NoErr THEN st.err ELSE rest.err,
     elems |-> <<st.fields>> \o rest.elems]

DecodeElement(v, into, rest) ==
    IF v.kind = "object"
    THEN ElementDecoded(DecodeMembers(WatcherFields, v.members,
                                      [err |-> NoErr, fields |-> into,
                                       spare |-> NoFields]), rest)
    ELSE [err |-> IF v.kind = "null" THEN rest.err ELSE ErrDecode,
          elems |-> <<into>> \o rest.elems]

DecodeElements(elems, i, old) ==
    IF i > Len(elems) THEN [err |-> NoErr, elems |-> <<>>]
    ELSE DecodeElement(elems[i], ElementAt(old, i), DecodeElements(elems, i + 1, old))

\* the elements of the array past the slice's new length n; an empty JSON
\* array makes a new empty slice with no array behind it
SpareAfter(spare, name, old, n) ==
    IF n = 0 \/ n >= Len(old) THEN Without(spare, name)
    ELSE With(spare, name, SubSeq(old, n + 1, Len(old)))

StoredSlice(st, name, slice, old) ==
    [err |-> IF st.err # NoErr THEN st.err ELSE slice.err,
     fields |-> With(st.fields, name, slice.elems),
     spare |-> SpareAfter(st.spare, name, old, Len(slice.elems))]

DecodeSlice(st, name, elems, old) ==
    StoredSlice(st, name, DecodeElements(elems, 1, old), old)

\* one JSON value into one field: null leaves a string, bool or int as it is
\* and makes a slice nil; a value of another kind is an error and the field
\* stays as it is
DecodeField(f, v, st) ==
    IF v.kind = "null"
    THEN IF f.type = "structs"
         THEN [st EXCEPT !.fields = Without(@, f.name), !.spare = Without(@, f.name)]
         ELSE st
    ELSE IF f.type = "string"
    THEN IF v.kind = "string" THEN Stored(st, f.name, v.str, <<>>) ELSE Failed(st)
    ELSE IF f.type = "bool"
    THEN IF v.kind = "bool" THEN Stored(st, f.name, v.bool, FALSE) ELSE Failed(st)
    ELSE IF f.type = "int"
    THEN IF v.kind = "number" /\ IsInt64(v.text)
         THEN Stored(st, f.name, IntOf(v.text), <<"0">>) ELSE Failed(st)
    ELSE IF v.kind = "array" THEN DecodeSlice(st, f.name, v.elems, InArray(st, f.name))
    ELSE Failed(st)

\* one member of the object: a key that names no field is skipped
DecodeNamed(scheme, i, m, st) ==
    IF i = 0 THEN st ELSE DecodeField(scheme.fields[i], m.value, st)

DecodeMember(scheme, m, st) ==
    IF scheme.open THEN [st EXCEPT !.fields = With(@, m.key, m.value)]
    ELSE DecodeNamed(scheme, FieldOf(scheme.fields, m.key), m, st)

DecodeMembers(scheme, members, st) ==
    IF Len(members) = 0 THEN st
    ELSE DecodeMembers(scheme, Tail(members), DecodeMember(scheme, Head(members), st))

\* the struct behind the pointer, once the object has been decoded into it
Allocated(st) == [err |-> st.err, value |-> StructResult(st.fields)]

FieldsOf(before) == IF before = Nil THEN NoFields ELSE before.fields

\* json.Unmarshal of parsed JSON p into a pointer to a struct pointer holding
\* `before`.  A syntax error leaves the pointer as it was; null makes it nil;
\* an object is decoded into the struct it points to, allocated when nil; any
\* other value is an error, the struct allocated all the same.
UnmarshalParsed(p, scheme, before) ==
    IF ~p.valid THEN [err |-> ErrDecode, value |-> before]
    ELSE IF p.value.kind = "null" THEN [err |-> NoErr, value |-> Nil]
    ELSE IF p.value.kind = "object"
    THEN Allocated(DecodeMembers(scheme, p.value.members,
                                 [err |-> NoErr, fields |-> FieldsOf(before),
                                  spare |-> NoFields]))
    ELSE [err |-> ErrDecode, value |-> StructResult(FieldsOf(before))]

\* json.Unmarshal(body, &result) for a struct pointer result
Unmarshal(body, scheme, before) == UnmarshalParsed(ParseJSON(body), scheme, before)

\* the elements of an array as pointers to structs: objects and nulls
ElementsFit(elems) == \A i \in 1..Len(elems) : elems[i].kind \in {"object", "null"}

\* json.Unmarshal of parsed JSON p into a pointer to a slice of struct
\* pointers holding `before`
UnmarshalSliceParsed(p, before) ==
    IF ~p.valid THEN [err |-> ErrDecode, value |-> before]
    ELSE IF p.value.kind = "null" THEN [err |-> NoErr, value |-> Nil]
    ELSE IF p.value.kind = "array"
    THEN [err |-> IF ElementsFit(p.value.elems) THEN NoErr ELSE ErrDecode,
          value |-> SliceResult(Len(p.value.elems))]
    ELSE [err |-> ErrDecode, value |-> before]

UnmarshalSlice(body, before) == UnmarshalSliceParsed(ParseJSON(body), before)

\* gjson.Result: its Type and its Raw text; Result{} is Null with no text.
GjsonResult(type, raw) == [nil |-> FALSE, shape |-> "gjson", type |-> type, raw |-> raw]

GjsonZero == GjsonResult("Null", <<>>)

\* The bytes up to the space, as a string here can hold them.
LowBytes == {" ", "\t", "\n", "\r", "\f"}

RECURSIVE SkipLow(_, _)
SkipLow(json, i) == IF At(json, i) \in LowBytes THEN SkipLow(json, i + 1) ELSE i

\* gjson's tolit: the literal runs while the bytes are lower-case letters
RECURSIVE LitEnd(_, _)
LitEnd(json, i) ==
    IF At(json, i) \in DOMAIN ByteOf /\ ByteOf[At(json, i)] \in 97..122
    THEN LitEnd(json, i + 1) ELSE i

\* gjson's tonum: the number ends at the end of the text, at a byte up to the
\* space, at a comma, and at a byte from ']' on other than e
NumberStops(c) ==
    \/ c = ""
    \/ c \in LowBytes
    \/ c = ","
    \/ (c \in DOMAIN ByteOf /\ ByteOf[c] >= 93 /\ c # "e")
    \/ c \notin DOMAIN ByteOf

RECURSIVE NumEnd(_, _)
NumEnd(json, i) == IF NumberStops(At(json, i)) THEN i ELSE NumEnd(json, i + 1)

\* gjson's tostr: the string ends after the first quote that no backslash
\* escapes, or with the text
RECURSIVE StrEnd(_, _, _)
StrEnd(json, i, escaped) ==
    IF At(json, i) = "" THEN i
    ELSE IF escaped THEN StrEnd(json, i + 1, FALSE)
    ELSE IF json[i] = "\"" THEN i + 1
    ELSE StrEnd(json, i + 1, json[i] = "\\")

\* the value gjson.Parse reads at i, the first byte above the space
ParseAt(json, i) ==
    IF At(json, i) \in {"{", "["} THEN GjsonResult("JSON", SubSeq(json, i, Len(json)))
    ELSE IF At(json, i) = "n" THEN GjsonResult("Null", SubSeq(json, i, LitEnd(json, i + 1) - 1))
    ELSE IF At(json, i) = "t" THEN GjsonResult("True", SubSeq(json, i, LitEnd(json, i + 1) - 1))
    ELSE IF At(json, i) = "f" THEN GjsonResult("False", SubSeq(json, i, LitEnd(json, i + 1) - 1))
    ELSE IF At(json, i) = "\""
    THEN GjsonResult("String", SubSeq(json, i, StrEnd(json, i + 1, FALSE) - 1))
    ELSE IF At(json, i) = "-" \/ At(json, i) \in JSONDigits
    THEN GjsonResult("Number", SubSeq(json, i, NumEnd(json, i + 1) - 1))
    ELSE GjsonZero

\* gjson.ParseBytes(json)
ParseBytes(json) == ParseAt(json, SkipLow(json, 1))

----------------------------------------------------------------------------
(* The shared client: configuration, request builder and transport.        *)

Host == "https://site.atlassian.net/"

HeaderNames == {"Authorization", "User-Agent", "Accept", "Content-Type"}

NoHeaders == [h \in HeaderNames |-> ""]

\* jira.New(nil, host): a client with no credentials and no user agent.
New(host) == [host |-> host, header |-> NoHeaders]

\* http.Header.Set(name, value)
HeaderSet(header, name, value) == [header EXCEPT ![name] = value]

HexChars ==
    {"0","1","2","3","4","5","6","7","8","9",
     "A","B","C","D","E","F","a","b","c","d","e","f"}

IsHex(c) == c \in HexChars

CutBefore(s, i) == IF i = 0 THEN s ELSE SubSeq(s, 1, i - 1)

CutAfter(s, i) == IF i = 0 THEN <<>> ELSE SubSeq(s, i + 1, Len(s))

\* The path of a relative URL: the text before the first '?'.
PathOf(endpoint) == CutBefore(endpoint, IndexFrom(endpoint, 1, "?"))

\* The query of a relative URL: the text after the first '?'.
QueryOf(endpoint) == CutAfter(endpoint, IndexFrom(endpoint, 1, "?"))

\* Every '%' of p starts a two-digit hex escape.
ValidEscapes(p) ==
    \A i \in 1..Len(p) :
        p[i] = "%" => (i + 2 <= Len(p) /\ IsHex(p[i + 1]) /\ IsHex(p[i + 2]))

\* url.Parse of a relative URL fails on a bad escape in the path.
ParseableURL(endpoint) == ValidEscapes(PathOf(endpoint))

\* newRequest(ctx, method, endpoint, body): a fresh request against the
\* configured host carrying the client's default headers, or an error.  The
\* endpoint it was given is kept beside the result.
newRequest(cl, method, endpoint, body) ==
    IF ~ParseableURL(endpoint)
    THEN [request |-> Nil, err |-> ErrURLParse, endpoint |-> endpoint]
    ELSE [request |->
            [nil |-> FALSE, method |-> method, host |-> cl.host,
             endpoint |-> endpoint, body |-> body, header |-> cl.header],
          err |-> NoErr, endpoint |-> endpoint]

\* transformStructToReader(payload): the JSON text of the payload behind a
\* reader, or an error for a nil payload.
transformStructToReader(payload) ==
    IF payload.nil THEN [reader |-> Nil, err |-> ErrStructureNotParsed]
    ELSE [reader |-> [nil |-> FALSE, bytes |-> MarshalJSON(payload.fields)],
          err |-> NoErr]

Is2xx(code) == code >= 200 /\ code < 300

\* The response envelope: status code, endpoint and method echoed, raw body.
Envelope(request, raw) ==
    [nil |-> FALSE, code |-> raw.code, endpoint |-> request.endpoint,
     method |-> request.method, bytes |-> raw.body]

\* client.Do(request): one round trip.  raw is what the network gave back:
\* no response at all, or a status code and a body; a status outside 2xx is
\* an error returned with the envelope.
Do(request, raw) ==
    IF raw.kind = "neterr" THEN [response |-> Nil, err |-> ErrTransport]
    ELSE [response |-> Envelope(request, raw),
          err |-> IF Is2xx(raw.code) THEN NoErr ELSE ErrStatus]

\* What call returns once the round trip has given `sent`: the body is decoded
\* into the target when the round trip succeeded and there is a target.
Decoded(sent, target, body) ==
    IF sent.err # NoErr \/ target = "none"
    THEN [response |-> sent.response, err |-> sent.err, value |-> Nil]
    ELSE IF target = "slice"
    THEN [response |-> sent.response] @@ UnmarshalSlice(body, Nil)
    ELSE [response |-> sent.response] @@ Unmarshal(body, OpenStruct, Nil)

\* client.call(request, target): one round trip, then the decoding.  value is
\* what the target holds afterwards.
call(request, target, raw) == Decoded(Do(request, raw), target, raw.body)

----------------------------------------------------------------------------
(* Service methods.  Each operator is the method up to its send: either it *)
(* has returned early (returned = TRUE, with the values it returns), or it *)
(* holds the request it built, the decode target it passes to the send and *)
(* the kind of code that follows the send.                                 *)

\* return before any request is built
Rejected(result, err) ==
    [returned |-> TRUE, builds |-> 0, endpoint |-> <<>>, request |-> Nil,
     target |-> "none", tail |-> "none", result |-> result, response |-> Nil,
     err |-> err]

\* `request, err := newRequest(...); if err != nil { return }`, and otherwise
\* the method goes on to send the request
Built(built, target, tail, result) ==
    IF built.err # NoErr
    THEN [returned |-> TRUE, builds |-> 1, endpoint |-> built.endpoint,
          request |-> Nil, target |-> "none", tail |-> "none", result |-> result,
          response |-> Nil, err |-> built.err]
    ELSE [returned |-> FALSE, builds |-> 1, endpoint |-> built.endpoint,
          request |-> built.request, target |-> target, tail |-> tail,
          result |-> result, response |-> Nil, err |-> NoErr]

\* request.Header.Set("Accept", "application/json"), reached when err is nil
SetAccept(built) ==
    IF built.err # NoErr THEN built
    ELSE [built EXCEPT !.request.header = HeaderSet(@, "Accept", "application/json")]

\* request.Header.Set("Content-Type", "application/json"), reached when err is nil
SetContentType(built) ==
    IF built.err # NoErr THEN built
    ELSE [built EXCEPT !.request.header = HeaderSet(@, "Content-Type", "application/json")]

(* ---- FilterShareService ---- *)

FilterShare_Scope(cl) ==
    Built(SetAccept(newRequest(cl, "GET", pathDefaultShareScope, Nil)),
          "response", "callIntoResponse", Nil)

validScopeValuesAsList == <<scopeGLOBAL, scopeAUTHENTICATED, scopePRIVATE>>

\* strings.ToUpper
ToUpper(s) ==
    [i \in 1..Len(s) |->
        IF Ord(s[i]) \in 97..122 THEN Printable[Ord(s[i]) - 32 - 31] ELSE s[i]]

\* Mutant of the loop: the comparison ignores case (strings.EqualFold).
IsValidScope_EqualFold(scope) ==
    \E i \in 1..Len(validScopeValuesAsList) :
        ToUpper(validScopeValuesAsList[i]) = ToUpper(scope)

\* the loop over validScopeValuesAsList
IsValidScope(scope) ==
    \E i \in 1..Len(validScopeValuesAsList) : validScopeValuesAsList[i] = scope

\* Mutant of the payload: the Scope field is left unset.
ShareFilterScopeScheme_Unset(scope) ==
    [nil |-> FALSE,
     fields |-> <<[key |-> kScope, value |-> <<>>, omitempty |-> FALSE]>>]

\* ShareFilterScopeScheme{Scope: scope}
ShareFilterScopeScheme(scope) ==
    [nil |-> FALSE,
     fields |-> <<[key |-> kScope, value |-> scope, omitempty |-> FALSE]>>]

FilterShare_SetScope(cl, scope) ==
    IF ~IsValidScope(scope) THEN Rejected(Nil, ErrInvalidScope)
    ELSE Built(SetContentType(SetAccept(
                 newRequest(cl, "PUT", pathDefaultShareScope,
                            transformStructToReader(ShareFilterScopeScheme(scope)).reader))),
               "none", "call", Nil)

FilterShare_Gets(cl, filterID) ==
    Built(SetAccept(newRequest(cl, "GET",
                               pathFilter \o Itoa(filterID) \o pathPermission, Nil)),
          "slice", "call", Nil)

\* Add, once transformStructToReader has returned (reader, err)
FilterShare_AddReader(cl, filterID, payloadAsReader) ==
    IF payloadAsReader.err # NoErr THEN Rejected(Nil, payloadAsReader.err)
    ELSE Built(SetContentType(SetAccept(
                 newRequest(cl, "POST", pathFilter \o Itoa(filterID) \o pathPermission,
                            payloadAsReader.reader))),
               "slice", "call", Nil)

FilterShare_Add(cl, filterID, payload) ==
    FilterShare_AddReader(cl, filterID, transformStructToReader(payload))

\* Mutant of Get: the permission id is left out of the path.
FilterShare_Get_WithoutPermissionID(cl, filterID, permissionID) ==
    Built(newRequest(cl, "GET", pathFilter \o Itoa(filterID) \o pathPermission, Nil),
          "struct", "call", Nil)

FilterShare_Get(cl, filterID, permissionID) ==
    Built(newRequest(cl, "GET",
                     pathFilter \o Itoa(filterID) \o pathPermissionSlash
                         \o Itoa(permissionID), Nil),
          "struct", "call", Nil)

FilterShare_Delete(cl, filterID, permissionID) ==
    Built(newRequest(cl, "DELETE",
                     pathFilter \o Itoa(filterID) \o pathPermissionSlash
                         \o Itoa(permissionID), Nil),
          "none", "call", Nil)

(* ---- ProjectVersionService ---- *)

ProjectVersion_Gets(cl, projectKeyOrID) ==
    IF Len(projectKeyOrID) = 0 THEN Rejected(Nil, ErrNoProjectIDError)
    ELSE Built(SetAccept(newRequest(cl, "GET",
                                    pathProject \o projectKeyOrID \o pathVersions, Nil)),
               "slice", "call", Nil)

\* Mutant of the guarded Add: the parameter is added whether set or not.
AddIfSet_Always(params, key, value) == ValuesAdd(params, key, value)

\* `if len(value) != 0 { params.Add(key, value) }`
AddIfSet(params, key, value) ==
    IF Len(value) # 0 THEN ValuesAdd(params, key, value) ELSE params

\* `if len(expand) != 0 { params.Add("expand", strings.Join(expand, ",")) }`
AddExpand(params, expand) ==
    IF Len(expand) # 0 THEN ValuesAdd(params, kExpand, Join(expand, <<",">>)) ELSE params

\* Mutant of the pagination: maxResults is added only when it is not 0.
Pagination_SkipZero(startAt, maxResults) ==
    IF maxResults = 0 THEN ValuesAdd(EmptyValues, kStartAt, Itoa(startAt))
    ELSE ValuesAdd(ValuesAdd(EmptyValues, kStartAt, Itoa(startAt)),
                   kMaxResults, Itoa(maxResults))

\* params.Add("startAt", ...); params.Add("maxResults", ...)
Pagination(startAt, maxResults) ==
    ValuesAdd(ValuesAdd(EmptyValues, kStartAt, Itoa(startAt)),
              kMaxResults, Itoa(maxResults))

\* the four optional parameters of Search, added to params
SearchOptions(params, options) ==
    AddIfSet(AddIfSet(AddIfSet(AddExpand(params, options.Expand),
                               kQuery, options.Query),
                      kStatus, options.Status),
             kOrderBy, options.OrderBy)

\* the url.Values that Search builds from its pagination and options
SearchParams(options, startAt, maxResults) ==
    IF options.nil THEN Pagination(startAt, maxResults)
    ELSE SearchOptions(Pagination(startAt, maxResults), options)

ProjectVersion_Search(cl, projectKeyOrID, options, startAt, maxResults) ==
    IF Len(projectKeyOrID) = 0 THEN Rejected(Nil, ErrNoProjectIDError)
    ELSE Built(SetAccept(
                 newRequest(cl, "GET",
                            pathProject \o projectKeyOrID \o pathVersionQ
                                \o Encode(SearchParams(options, startAt, maxResults)),
                            Nil)),
               "struct", "call", Nil)

\* Create, once transformStructToReader has returned (reader, err)
ProjectVersion_CreateReader(cl, payloadAsReader) ==
    IF payloadAsReader.err # NoErr THEN Rejected(Nil, payloadAsReader.err)
    ELSE Built(SetContentType(SetAccept(
                 newRequest(cl, "POST", pathVersion, payloadAsReader.reader))),
               "struct", "call", Nil)

ProjectVersion_Create(cl, payload) ==
    ProjectVersion_CreateReader(cl, transformStructToReader(payload))

\* the path, then '?' and the encoded parameters when they are not empty
WithEncoded(path, encoded) ==
    IF encoded # <<>> THEN path \o <<"?">> \o encoded ELSE path

WithQuery(path, params) == WithEncoded(path, Encode(params))

ProjectVersion_Get(cl, versionID, expand) ==
    IF Len(versionID) = 0 THEN Rejected(Nil, ErrNoVersionIDError)
    ELSE Built(SetAccept(
                 newRequest(cl, "GET",
                            WithQuery(pathVersionSlash \o versionID,
                                      AddExpand(EmptyValues, expand)),
                            Nil)),
               "struct", "call", Nil)

\* Update, once transformStructToReader has returned (reader, err)
ProjectVersion_UpdateReader(cl, versionID, payloadAsReader) ==
    IF payloadAsReader.err # NoErr THEN Rejected(Nil, payloadAsReader.err)
    ELSE Built(SetContentType(SetAccept(
                 newRequest(cl, "PUT", pathVersionSlash \o versionID,
                            payloadAsReader.reader))),
               "struct", "call", Nil)

ProjectVersion_Update(cl, versionID, payload) ==
    IF Len(versionID) = 0 THEN Rejected(Nil, ErrNoVersionIDError)
    ELSE ProjectVersion_UpdateReader(cl, versionID, transformStructToReader(payload))

\* Mutant of Merge: the check of versionMoveIssuesTo is missing.
ProjectVersion_Merge_OneCheck(cl, versionID, versionMoveIssuesTo) ==
    IF Len(versionID) = 0 THEN Rejected(Nil, ErrNoVersionIDError)
    ELSE Built(SetAccept(
                 newRequest(cl, "PUT",
                            pathVersionSlash \o versionID \o pathMergeTo
                                \o versionMoveIssuesTo, Nil)),
               "none", "call", Nil)

ProjectVersion_Merge(cl, versionID, versionMoveIssuesTo) ==
    IF Len(versionID) = 0 THEN Rejected(Nil, ErrNoVersionIDError)
    ELSE IF Len(versionMoveIssuesTo) = 0 THEN Rejected(Nil, ErrNoVersionIDError)
    ELSE Built(SetAccept(
                 newRequest(cl, "PUT",
                            pathVersionSlash \o versionID \o pathMergeTo
                                \o versionMoveIssuesTo, Nil)),
               "none", "call", Nil)

ProjectVersion_RelatedIssueCounts(cl, versionID) ==
    IF Len(versionID) = 0 THEN Rejected(Nil, ErrNoVersionIDError)
    ELSE Built(SetAccept(
                 newRequest(cl, "GET",
                            pathVersionSlash \o versionID \o pathRelatedIssueCounts, Nil)),
               "struct", "call", Nil)

ProjectVersion_UnresolvedIssueCount(cl, versionID) ==
    IF Len(versionID) = 0 THEN Rejected(Nil, ErrNoVersionIDError)
    ELSE Built(SetAccept(
                 newRequest(cl, "GET",
                            pathVersionSlash \o versionID \o pathUnresolvedIssueCount, Nil)),
               "struct", "call", Nil)

(* ---- IssueMetadataService ---- *)

\* `if flag { params.Add(key, "true") }`
AddIfTrue(params, key, flag) ==
    IF flag THEN ValuesAdd(params, key, vTrue) ELSE params

\* the url.Values that Get builds from its two flags
EditMetaParams(overrideScreenSecurity, overrideEditableFlag) ==
    AddIfTrue(AddIfTrue(EmptyValues, kOverrideEditableFlag, overrideEditableFlag),
              kOverrideScreenSecurity, overrideScreenSecurity)

IssueMetadata_Get(cl, issueKeyOrID, overrideScreenSecurity, overrideEditableFlag) ==
    IF Len(issueKeyOrID) = 0 THEN Rejected(GjsonZero, ErrNoIssueKeyOrIDError)
    ELSE Built(SetAccept(
                 newRequest(cl, "GET",
                            WithQuery(pathIssue2 \o issueKeyOrID \o pathEditMeta,
                                      EditMetaParams(overrideScreenSecurity,
                                                     overrideEditableFlag)),
                            Nil)),
               "none", "callThenParse", GjsonZero)

\* url.Values.Add for each element of a []string field (no element, no key)
RECURSIVE AddEach(_, _, _)
AddEach(params, key, list) ==
    IF Len(list) = 0 THEN params
    ELSE AddEach(ValuesAdd(params, key, Head(list)), key, Tail(list))

\* query.Values(opts): the fields of IssueMetadataCreateOptions by their url
\* tags, each one omitted when empty; no values at all for a nil opts.
QueryValues(opts) ==
    IF opts.nil THEN EmptyValues
    ELSE AddIfSet(AddEach(AddEach(AddEach(AddEach(EmptyValues,
                                                  kProjectIds, opts.ProjectIDs),
                                          kProjectKeys, opts.ProjectKeys),
                                  kIssuetypeIds, opts.IssueTypeIDs),
                          kIssuetypeNames, opts.IssueTypeNames),
                  kExpand, opts.Expand)

IssueMetadata_Create(cl, opts) ==
    Built(SetAccept(
            newRequest(cl, "GET",
                       pathCreateMeta \o <<"?">> \o Encode(QueryValues(opts)), Nil)),
          "none", "callThenParse", GjsonZero)

(* ---- WatcherService ---- *)

Watcher_Get(cl, issueKeyOrID) ==
    Built(SetContentType(
            newRequest(cl, "GET", pathIssue3 \o issueKeyOrID \o pathWatchers, Nil)),
          "none", "doThenUnmarshal", Nil)

Watcher_Add(cl, issueKeyOrID) ==
    Built(SetContentType(
            newRequest(cl, "POST", pathIssue3 \o issueKeyOrID \o pathWatchers, Nil)),
          "none", "do", Nil)

Watcher_Delete(cl, issueKeyOrID) ==
    Built(SetContentType(
            newRequest(cl, "DELETE", pathIssue3 \o issueKeyOrID \o pathWatchers, Nil)),
          "none", "do", Nil)

----------------------------------------------------------------------------
(* What follows the send.  Each operator is the code from the send to the  *)
(* method's return: the values returned and the number of sends performed. *)

\* Mutant of the return: on an error the envelope is dropped.
Returned_DropsResponse(ret) ==
    [sends |-> 1, result |-> ret.value,
     response |-> IF ret.err # NoErr THEN Nil ELSE ret.response, err |-> ret.err]

\* `if err != nil { return }; return` after `response, err = call(...)` with
\* target nil or &result: the named results are what the call left.
Returned(ret) ==
    [sends |-> 1, result |-> ret.value, response |-> ret.response, err |-> ret.err]

\* `response, err = client.call(request, target)` and the return
ReturnCall(request, target, raw) == Returned(call(request, target, raw))

\* Scope: `response, err = f.client.call(request, &response)`: the body is
\* decoded into the response variable, which the assignment then overwrites;
\* result is never assigned.
ReturnedIntoResponse(ret) ==
    [sends |-> 1, result |-> Nil, response |-> ret.response, err |-> ret.err]

ReturnCallIntoResponse(request, raw) ==
    ReturnedIntoResponse(call(request, "response", raw))

\* IssueMetadata: `if err != nil { return }` and otherwise
\* `return gjson.ParseBytes(response.Bytes.Bytes()), response, nil`
ReturnedThenParse(ret) ==
    IF ret.err # NoErr
    THEN [sends |-> 1, result |-> GjsonZero, response |-> ret.response, err |-> ret.err]
    ELSE [sends |-> 1, result |-> ParseBytes(ret.response.bytes),
          response |-> ret.response, err |-> NoErr]

ReturnCallThenParse(request, raw) == ReturnedThenParse(call(request, "none", raw))

\* Mutant of the return: a failed Do is tried a second time.
ReturnedDo_Retry(ret) ==
    [sends |-> IF ret.err # NoErr THEN 2 ELSE 1, result |-> Nil,
     response |-> ret.response, err |-> ret.err]

\* Watcher Add and Delete: `response, err = w.client.Do(request)` and the return
ReturnedDo(ret) ==
    [sends |-> 1, result |-> Nil, response |-> ret.response, err |-> ret.err]

ReturnDo(request, raw) == ReturnedDo(Do(request, raw))

\* Watcher Get: after Do, result = new(IssueWatcherScheme) and json.Unmarshal
\* of the body into it.
ReturnedThenUnmarshal(ret) ==
    IF ret.err # NoErr
    THEN [sends |-> 1, result |-> Nil, response |-> ret.response, err |-> ret.err]
    ELSE [sends |-> 1, response |-> ret.response,
          result |-> Unmarshal(ret.response.bytes, IssueWatcherScheme,
                               StructResult(NoFields)).value,
          err |-> Unmarshal(ret.response.bytes, IssueWatcherScheme,
                            StructResult(NoFields)).err]

ReturnDoThenUnmarshal(request, raw) == ReturnedThenUnmarshal(Do(request, raw))

\* The code after the send, by the kind the method named.
Return(tail, request, target, raw) ==
    CASE tail = "call" -> ReturnCall(request, target, raw)
      [] tail = "callIntoResponse" -> ReturnCallIntoResponse(request, raw)
      [] tail = "callThenParse" -> ReturnCallThenParse(request, raw)
      [] tail = "do" -> ReturnDo(request, raw)
      [] tail = "doThenUnmarshal" -> ReturnDoThenUnmarshal(request, raw)

----------------------------------------------------------------------------
(* Inputs.                                                                 *)

MaxStartAt == 1

MaxFilterID == 1

MaxPermissionID == 1

PageSize == 50

\* More than one caller is running: the inputs are then drawn from the
\* reduced sets.
Narrow == Cardinality(DOMAIN calls) > 1

Scopes ==
    IF Narrow THEN {scopeGLOBAL, scopeLower}
    ELSE {scopeGLOBAL, scopeAUTHENTICATED, scopePRIVATE, scopeLower, scopePUBLIC, <<>>}

FilterIDs == IF Narrow THEN {1} ELSE (0..MaxFilterID) \cup {12}

PermissionIDs == IF Narrow THEN {1} ELSE 0..MaxPermissionID

\* project keys, version IDs and issue keys: "", "A", "10" and "%"
Keys == IF Narrow THEN {<<>>, idA} ELSE {<<>>, idA, idTen, idPercent}

StartAts == IF Narrow THEN {0} ELSE 0..MaxStartAt

MaxResultsValues == IF Narrow THEN {PageSize} ELSE {0, PageSize}

PermissionFilterPayloadScheme(type, projectID, groupName, projectRoleID) ==
    [nil |-> FALSE,
     fields |-> <<[key |-> kType, value |-> type, omitempty |-> TRUE],
                  [key |-> kProjectId, value |-> projectID, omitempty |-> TRUE],
                  [key |-> kGroupName, value |-> groupName, omitempty |-> TRUE],
                  [key |-> kProjectRoleId, value |-> projectRoleID, omitempty |-> TRUE]>>]

PermissionPayloads ==
    {Nil, PermissionFilterPayloadScheme(vGroup, <<>>, vEng, <<>>)}

VersionPayloadScheme(name) ==
    [nil |-> FALSE, fields |-> <<[key |-> kName, value |-> name, omitempty |-> TRUE]>>]

VersionPayloads == {Nil, VersionPayloadScheme(vOne)}

ExpandLists == IF Narrow THEN {<<>>, <<vOp, vIs>>} ELSE {<<>>, <<vOp>>, <<vOp, vIs>>}

\* *models.VersionGetsOptions: nil, or Expand, Query, Status and OrderBy
VersionGetsOptions ==
    IF Narrow
    THEN {Nil, [nil |-> FALSE, Expand |-> <<vOp, vIs>>, Query |-> vQ,
                Status |-> vReleased, OrderBy |-> vSeq]}
    ELSE {Nil} \cup [nil : {FALSE}, Expand : ExpandLists, Query : {<<>>, vQ},
                     Status : {<<>>, vReleased}, OrderBy : {<<>>, vSeq}]

\* *IssueMetadataCreateOptions: nil, or the five fields
IssueMetadataCreateOptions ==
    IF Narrow
    THEN {Nil, [nil |-> FALSE, ProjectIDs |-> <<vOne, vTwo>>, ProjectKeys |-> <<>>,
                IssueTypeIDs |-> <<>>, IssueTypeNames |-> <<vBug>>, Expand |-> vOp]}
    ELSE {Nil} \cup [nil : {FALSE}, ProjectIDs : {<<>>, <<vOne>>, <<vOne, vTwo>>},
                     ProjectKeys : {<<>>, <<idA>>}, IssueTypeIDs : {<<>>, <<vTwo>>},
                     IssueTypeNames : {<<>>, <<vBug>>}, Expand : {<<>>, vOp}]

Bodies ==
    IF Narrow THEN {bodyScopeGlobal, bodyHTML}
    ELSE {bodyScopeGlobal, bodyScopePrivate, bodyArray, bodyHTML, bodyNull, bodyWatchers,
          bodyWatchersTwice}

StatusCodes == IF Narrow THEN {200} ELSE {200, 404}

NetErr == [kind |-> "neterr", code |-> 0, body |-> <<>>]

\* What the network gives back for one round trip: no HTTP response at all,
\* or a status code and a body.
RawReplies ==
    {NetErr, [kind |-> "http", code |-> 404, body |-> bodyHTML]}
    \cup [kind : {"http"}, code : StatusCodes, body : Bodies]

----------------------------------------------------------------------------
(* The state machine: callers (goroutines) invoke service methods on one   *)
(* shared client.  A caller is idle, in its send ("calling"), or has the   *)
(* method's return values ("done").                                        *)

Idle ==
    [pc |-> "idle", method |-> "", args |-> Nil, builds |-> 0, sends |-> 0,
     endpoint |-> <<>>, request |-> Nil, target |-> "none", tail |-> "none", raw |-> Nil,
     result |-> Nil, response |-> Nil, err |-> NoErr]

\* The shared client after a method has run up to its send.  The code that
\* could write it (newRequest, call, Do) is not in this repository's files
\* here; the specification's concurrency section has the client configuration
\* read-only after set-up, and the methods' own code assigns only locals,
\* named results and the request newRequest returned.
ClientAfter(cl, plan) == cl

\* The caller's state once the method has run up to its send.
Started(method, a, plan) ==
    [pc |-> IF plan.returned THEN "done" ELSE "calling",
     method |-> method, args |-> a, builds |-> plan.builds, sends |-> 0,
     endpoint |-> plan.endpoint, request |-> plan.request, target |-> plan.target, tail |-> plan.tail,
     raw |-> Nil, result |-> plan.result, response |-> plan.response,
     err |-> plan.err]

\* Caller c invokes method with arguments a; plan is the method run up to
\* its send against the shared client.
Invoke(c, method, a, plan) ==
    /\ calls[c].pc = "idle"
    /\ calls' = [calls EXCEPT ![c] = Started(method, a, plan)]
    /\ client' = ClientAfter(client, plan)

Scope ==
    \E c \in DOMAIN calls :
        Invoke(c, "FilterShare.Scope", Nil, FilterShare_Scope(client))

SetScope ==
    \E c \in DOMAIN calls, scope \in Scopes :
        Invoke(c, "FilterShare.SetScope", [scope |-> scope],
               FilterShare_SetScope(client, scope))

FilterShareGets ==
    \E c \in DOMAIN calls, filterID \in FilterIDs :
        Invoke(c, "FilterShare.Gets", [filterID |-> filterID],
               FilterShare_Gets(client, filterID))

FilterShareAdd ==
    \E c \in DOMAIN calls, filterID \in FilterIDs, payload \in PermissionPayloads :
        Invoke(c, "FilterShare.Add", [filterID |-> filterID, payload |-> payload],
               FilterShare_Add(client, filterID, payload))

FilterShareGet ==
    \E c \in DOMAIN calls, filterID \in FilterIDs, permissionID \in PermissionIDs :
        Invoke(c, "FilterShare.Get",
               [filterID |-> filterID, permissionID |-> permissionID],
               FilterShare_Get(client, filterID, permissionID))

FilterShareDelete ==
    \E c \in DOMAIN calls, filterID \in FilterIDs, permissionID \in PermissionIDs :
        Invoke(c, "FilterShare.Delete",
               [filterID |-> filterID, permissionID |-> permissionID],
               FilterShare_Delete(client, filterID, permissionID))

ProjectVersionGets ==
    \E c \in DOMAIN calls, key \in Keys :
        Invoke(c, "ProjectVersion.Gets", [projectKeyOrID |-> key],
               ProjectVersion_Gets(client, key))

Search ==
    \E c \in DOMAIN calls, key \in Keys, options \in VersionGetsOptions,
       startAt \in StartAts, maxResults \in MaxResultsValues :
        Invoke(c, "ProjectVersion.Search",
               [projectKeyOrID |-> key, options |-> options, startAt |-> startAt,
                maxResults |-> maxResults],
               ProjectVersion_Search(client, key, options, startAt, maxResults))

ProjectVersionCreate ==
    \E c \in DOMAIN calls, payload \in VersionPayloads :
        Invoke(c, "ProjectVersion.Create", [payload |-> payload],
               ProjectVersion_Create(client, payload))

ProjectVersionGet ==
    \E c \in DOMAIN calls, versionID \in Keys, expand \in ExpandLists :
        Invoke(c, "ProjectVersion.Get", [versionID |-> versionID, expand |-> expand],
               ProjectVersion_Get(client, versionID, expand))

Update ==
    \E c \in DOMAIN calls, versionID \in Keys, payload \in VersionPayloads :
        Invoke(c, "ProjectVersion.Update", [versionID |-> versionID, payload |-> payload],
               ProjectVersion_Update(client, versionID, payload))

Merge ==
    \E c \in DOMAIN calls, versionID \in Keys, versionMoveIssuesTo \in Keys :
        Invoke(c, "ProjectVersion.Merge",
               [versionID |-> versionID, versionMoveIssuesTo |-> versionMoveIssuesTo],
               ProjectVersion_Merge(client, versionID, versionMoveIssuesTo))

RelatedIssueCounts ==
    \E c \in DOMAIN calls, versionID \in Keys :
        Invoke(c, "ProjectVersion.RelatedIssueCounts", [versionID |-> versionID],
               ProjectVersion_RelatedIssueCounts(client, versionID))

UnresolvedIssueCount ==
    \E c \in DOMAIN calls, versionID \in Keys :
        Invoke(c, "ProjectVersion.UnresolvedIssueCount", [versionID |-> versionID],
               ProjectVersion_UnresolvedIssueCount(client, versionID))

IssueMetadataGet ==
    \E c \in DOMAIN calls, key \in Keys, overrideScreenSecurity \in BOOLEAN,
       overrideEditableFlag \in BOOLEAN :
        Invoke(c, "IssueMetadata.Get",
               [issueKeyOrID |-> key, overrideScreenSecurity |-> overrideScreenSecurity,
                overrideEditableFlag |-> overrideEditableFlag],
               IssueMetadata_Get(client, key, overrideScreenSecurity,
                                 overrideEditableFlag))

IssueMetadataCreate ==
    \E c \in DOMAIN calls, opts \in IssueMetadataCreateOptions :
        Invoke(c, "IssueMetadata.Create", [opts |-> opts],
               IssueMetadata_Create(client, opts))

WatcherGet ==
    \E c \in DOMAIN calls, key \in Keys :
        Invoke(c, "Watcher.Get", [issueKeyOrID |-> key], Watcher_Get(client, key))

WatcherAdd ==
    \E c \in DOMAIN calls, key \in Keys :
        Invoke(c, "Watcher.Add", [issueKeyOrID |-> key], Watcher_Add(client, key))

WatcherDelete ==
    \E c \in DOMAIN calls, key \in Keys :
        Invoke(c, "Watcher.Delete", [issueKeyOrID |-> key], Watcher_Delete(client, key))

\* The caller's state once its send has ended and the method has returned out.
Finished(s, raw, out) ==
    [s EXCEPT !.pc = "done", !.sends = s.sends + out.sends, !.raw = raw,
              !.result = out.result, !.response = out.response, !.err = out.err]

\* The round trip of caller c ends with raw, and the method runs to its return.
Receive ==
    \E c \in DOMAIN calls :
        /\ calls[c].pc = "calling"
        /\ \E raw \in RawReplies :
              calls' = [calls EXCEPT ![c] =
                          Finished(@, raw, Return(@.tail, @.request, @.target, raw))]
        /\ UNCHANGED client

\* The caller has read the values the method returned and is free to invoke
\* the next method.
Consume ==
    \E c \in DOMAIN calls :
        /\ calls[c].pc = "done"
        /\ calls' = [calls EXCEPT ![c] = Idle]
        /\ UNCHANGED client

\* Set-up, before any method is invoked: jiraCloud.Auth.SetBasicAuth(mail, token)
SetBasicAuth ==
    /\ \A c \in DOMAIN calls : calls[c].pc = "idle"
    /\ client.header["Authorization"] = ""
    /\ client' = [client EXCEPT !.header = HeaderSet(@, "Authorization", "Basic mail:token")]
    /\ UNCHANGED calls

\* Set-up, before any method is invoked: jiraCloud.Auth.SetUserAgent("curl/7.54.0")
SetUserAgent ==
    /\ \A c \in DOMAIN calls : calls[c].pc = "idle"
    /\ client.header["User-Agent"] = ""
    /\ client' = [client EXCEPT !.header = HeaderSet(@, "User-Agent", "curl/7.54.0")]
    /\ UNCHANGED calls

\* One caller.
Init ==
    /\ client = New(Host)
    /\ calls = [c \in {"g1"} |-> Idle]

\* Two callers sharing the client.
InitConcurrent ==
    /\ client = New(Host)
    /\ calls = [c \in {"g1", "g2"} |-> Idle]

Next ==
    \/ SetBasicAuth
    \/ SetUserAgent
    \/ Scope
    \/ SetScope
    \/ FilterShareGets
    \/ FilterShareAdd
    \/ FilterShareGet
    \/ FilterShareDelete
    \/ ProjectVersionGets
    \/ Search
    \/ ProjectVersionCreate
    \/ ProjectVersionGet
    \/ Update
    \/ Merge
    \/ RelatedIssueCounts
    \/ UnresolvedIssueCount
    \/ IssueMetadataGet
    \/ IssueMetadataCreate
    \/ WatcherGet
    \/ WatcherAdd
    \/ WatcherDelete
    \/ Receive
    \/ Consume

Spec == Init /\ [][Next]_vars

SpecConcurrent == InitConcurrent /\ [][Next]_vars

----------------------------------------------------------------------------
(* Properties.                                                             *)

Callers == DOMAIN calls

ValidScopes == {scopeGLOBAL, scopeAUTHENTICATED, scopePRIVATE}

SendSucceeded2xx(s) == s.raw.kind = "http" /\ Is2xx(s.raw.code)

\* C1: SetScope with a scope that is not exactly GLOBAL, AUTHENTICATED or
\* PRIVATE (the empty string and other-case spellings included) has returned
\* a non-nil error and a nil response, and has built and sent no request.
C1_SetScopeRejectsInvalidScope ==
    \A c \in Callers :
        (calls[c].method = "FilterShare.SetScope"
            /\ calls[c].args.scope \notin ValidScopes)
        => /\ calls[c].pc = "done"
           /\ calls[c].err # NoErr
           /\ calls[c].response = Nil
           /\ calls[c].builds = 0
           /\ calls[c].request = Nil
           /\ calls[c].sends = 0

\* SetScope("global") has been rejected.
C1_Witness ==
    \E c \in Callers :
        /\ calls[c].method = "FilterShare.SetScope"
        /\ calls[c].args.scope = scopeLower
        /\ calls[c].pc = "done"
        /\ calls[c].err = ErrInvalidScope

\* C2: SetScope with GLOBAL, AUTHENTICATED or PRIVATE builds one request, a
\* PUT to rest/api/2/filter/defaultShareScope whose JSON body has the given
\* value in its scope field; once it has returned it has sent exactly once,
\* and its error is nil when the send ended with a 2xx response.
C2_SetScopeSendsOnePut ==
    \A c \in Callers :
        (calls[c].method = "FilterShare.SetScope"
            /\ calls[c].args.scope \in ValidScopes)
        => /\ calls[c].builds = 1
           /\ calls[c].request # Nil
           /\ calls[c].request.method = "PUT"
           /\ calls[c].request.endpoint = pathDefaultShareScope
           /\ calls[c].request.body # Nil
           /\ ParseJSON(calls[c].request.body.bytes).valid
           /\ ParseJSON(calls[c].request.body.bytes).value
                 = JObject(<<[key |-> kScope, value |-> JString(calls[c].args.scope)]>>)
           /\ calls[c].pc = "calling" => calls[c].sends = 0
           /\ calls[c].pc = "done" =>
                 /\ calls[c].sends = 1
                 /\ SendSucceeded2xx(calls[c]) => calls[c].err = NoErr

\* SetScope("AUTHENTICATED") has returned nil after a 2xx response.
C2_Witness ==
    \E c \in Callers :
        /\ calls[c].method = "FilterShare.SetScope"
        /\ calls[c].args.scope = scopeAUTHENTICATED
        /\ calls[c].pc = "done"
        /\ calls[c].sends = 1
        /\ SendSucceeded2xx(calls[c])
        /\ calls[c].err = NoErr

\* C3: when its send has succeeded, Scope returns a non-nil decoded
\* ShareFilterScopeScheme whose Scope is the scope value of the response
\* body, with the response envelope and a nil error.
C3_ScopeReturnsDecodedScope ==
    \A c \in Callers :
        (calls[c].method = "FilterShare.Scope" /\ calls[c].pc = "done"
            /\ calls[c].err = NoErr)
        => /\ calls[c].response # Nil
           /\ calls[c].result # Nil
           /\ calls[c].result
                 = Unmarshal(calls[c].raw.body, ShareFilterScopeFields, Nil).value

\* The parameters of a query string: its text split at every '&'.
RECURSIVE SplitAmp(_)
SplitAmp(q) ==
    IF Len(q) = 0 THEN <<>>
    ELSE IF IndexFrom(q, 1, "&") = 0 THEN <<q>>
    ELSE <<SubSeq(q, 1, IndexFrom(q, 1, "&") - 1)>>
            \o SplitAmp(SubSeq(q, IndexFrom(q, 1, "&") + 1, Len(q)))

\* The parameters of the query string of an endpoint.
ParamsOf(endpoint) == SplitAmp(QueryOf(endpoint))

\* The positions at which the endpoint's query string has key=value.
ParamAt(endpoint, key, value) ==
    {i \in 1..Len(ParamsOf(endpoint)) : ParamsOf(endpoint)[i] = key \o <<"=">> \o value}

\* The endpoint's query string has a parameter named key.
HasKey(endpoint, key) ==
    \E i \in 1..Len(ParamsOf(endpoint)) : HasPrefix(ParamsOf(endpoint)[i], key \o <<"=">>)

IsSearchWithKey(s) ==
    s.method = "ProjectVersion.Search" /\ Len(s.args.projectKeyOrID) # 0

\* orderBy or query is among the options of a Search
SendsOrderByOrQuery(s) ==
    /\ ~s.args.options.nil
    /\ (Len(s.args.options.OrderBy) # 0 \/ Len(s.args.options.Query) # 0)

\* C4 as claimed: for every non-empty project key, startAt and maxResults
\* (0 included), the query string built by Search contains the text
\* startAt=<startAt>&maxResults=<maxResults>.
C4_StartAtThenMaxResults ==
    \A c \in Callers :
        IsSearchWithKey(calls[c])
        => Contains(QueryOf(calls[c].endpoint),
                    kStartAt \o <<"=">> \o Itoa(calls[c].args.startAt) \o <<"&">>
                        \o kMaxResults \o <<"=">> \o Itoa(calls[c].args.maxResults))

\* C4 as amended: for every non-empty project key, startAt and maxResults
\* (0 included), the query string built by Search has the parameter
\* maxResults=<maxResults> once and the parameter startAt=<startAt> once,
\* maxResults before startAt (the parameters are encoded in key order), and
\* the text maxResults=<maxResults>&startAt=<startAt> exactly when neither
\* orderBy nor query is sent.
C4_BothPaginationParameters ==
    \A c \in Callers :
        IsSearchWithKey(calls[c])
        => LET s == calls[c]
               maxAt == ParamAt(s.endpoint, kMaxResults, Itoa(s.args.maxResults))
               startAtAt == ParamAt(s.endpoint, kStartAt, Itoa(s.args.startAt))
           IN  /\ s.builds = 1
               /\ Cardinality(maxAt) = 1
               /\ Cardinality(startAtAt) = 1
               /\ MinOf(maxAt) < MinOf(startAtAt)
               /\ Contains(QueryOf(s.endpoint),
                           kMaxResults \o <<"=">> \o Itoa(s.args.maxResults) \o <<"&">>
                               \o kStartAt \o <<"=">> \o Itoa(s.args.startAt))
                    <=> ~SendsOrderByOrQuery(s)

\* Search with maxResults = 0 and with orderBy and query set has built its
\* request and returned without error.
C4_Witness ==
    \E c \in Callers :
        /\ IsSearchWithKey(calls[c])
        /\ calls[c].args.maxResults = 0
        /\ ~calls[c].args.options.nil
        /\ calls[c].args.options.OrderBy = vSeq
        /\ calls[c].args.options.Query = vQ
        /\ calls[c].pc = "done"
        /\ calls[c].sends = 1
        /\ calls[c].err = NoErr

VersionIDMethods ==
    {"ProjectVersion.Get", "ProjectVersion.Update", "ProjectVersion.RelatedIssueCounts",
     "ProjectVersion.UnresolvedIssueCount"}

\* The error a method's pre-flight check of its identifiers gives for the
\* arguments of s; NoErr when the check passes or the method has none.
PreflightError(s) ==
    IF s.method \in {"ProjectVersion.Gets", "ProjectVersion.Search"}
    THEN IF Len(s.args.projectKeyOrID) = 0 THEN ErrNoProjectIDError ELSE NoErr
    ELSE IF s.method \in VersionIDMethods
    THEN IF Len(s.args.versionID) = 0 THEN ErrNoVersionIDError ELSE NoErr
    ELSE IF s.method = "ProjectVersion.Merge"
    THEN IF Len(s.args.versionID) = 0 \/ Len(s.args.versionMoveIssuesTo) = 0
         THEN ErrNoVersionIDError ELSE NoErr
    ELSE IF s.method = "IssueMetadata.Get"
    THEN IF Len(s.args.issueKeyOrID) = 0 THEN ErrNoIssueKeyOrIDError ELSE NoErr
    ELSE NoErr

\* C5: ProjectVersion Gets and Search with an empty project key return
\* ErrNoProjectIDError; Get, Update, RelatedIssueCounts and
\* UnresolvedIssueCount with an empty versionID, and Merge with versionID or
\* versionMoveIssuesTo empty, return ErrNoVersionIDError; IssueMetadata Get
\* with an empty issue key returns ErrNoIssueKeyOrIDError.  In each case the
\* response is nil, the result nil or zero, and no request is built or sent.
C5_PreflightIdentifierChecks ==
    \A c \in Callers :
        PreflightError(calls[c]) # NoErr
        => /\ calls[c].pc = "done"
           /\ calls[c].err = PreflightError(calls[c])
           /\ calls[c].response = Nil
           /\ calls[c].result = IF calls[c].method = "IssueMetadata.Get"
                                THEN GjsonZero ELSE Nil
           /\ calls[c].builds = 0
           /\ calls[c].request = Nil
           /\ calls[c].sends = 0

\* Merge with a versionID and an empty versionMoveIssuesTo has been rejected.
C5_Witness ==
    \E c \in Callers :
        /\ calls[c].method = "ProjectVersion.Merge"
        /\ calls[c].args.versionID = idA
        /\ calls[c].args.versionMoveIssuesTo = <<>>
        /\ calls[c].pc = "done"
        /\ calls[c].err = ErrNoVersionIDError
        /\ calls[c].builds = 0

\* The identifier the claim names is empty or zero in the arguments of s.
MissingIdentifier(s) ==
    \/ /\ s.method \in {"Watcher.Get", "Watcher.Add", "Watcher.Delete"}
       /\ Len(s.args.issueKeyOrID) = 0
    \/ /\ s.method \in {"FilterShare.Gets", "FilterShare.Add", "FilterShare.Get",
                        "FilterShare.Delete"}
       /\ s.args.filterID = 0

\* C6: Watcher Get, Add and Delete with an empty issueKeyOrID, and
\* FilterShare Gets, Add, Get and Delete with filterID = 0, return a
\* validation error without building or sending a request.
C6_WatcherAndFilterIdentifierChecks ==
    \A c \in Callers :
        MissingIdentifier(calls[c])
        => /\ calls[c].pc = "done"
           /\ calls[c].err # NoErr
           /\ calls[c].builds = 0
           /\ calls[c].request = Nil
           /\ calls[c].sends = 0

\* C7: an invocation that passes its pre-flight validation and builds its
\* request performs exactly one send, whether the send succeeds or fails; an
\* invocation that fails validation or request building performs no send; no
\* invocation sends a second time.
C7_ExactlyOneSend ==
    \A c \in Callers :
        /\ calls[c].sends <= 1
        /\ calls[c].pc = "calling" => (calls[c].request # Nil /\ calls[c].sends = 0)
        /\ calls[c].pc = "done"
           => calls[c].sends = IF calls[c].request # Nil THEN 1 ELSE 0
        /\ (PreflightError(calls[c]) # NoErr \/ calls[c].err = ErrURLParse
              \/ calls[c].err = ErrStructureNotParsed \/ calls[c].err = ErrInvalidScope)
           => (calls[c].request = Nil /\ calls[c].sends = 0)

\* Watcher Add has returned after a send that failed, having sent once.
C7_Witness ==
    \E c \in Callers :
        /\ calls[c].method = "Watcher.Add"
        /\ calls[c].pc = "done"
        /\ calls[c].request # Nil
        /\ calls[c].err = ErrStatus
        /\ calls[c].sends = 1

\* What the send of the invocation in s returned: Do for the Watcher
\* methods, call for the others.
SendReturned(s) ==
    IF s.tail \in {"do", "doThenUnmarshal"} THEN Do(s.request, s.raw)
    ELSE call(s.request, s.target, s.raw)

\* C8: when the send returns an error, the method returns the envelope the
\* send returned and that error, unchanged; an envelope returned with the
\* error carries the status code and the raw body of the reply.
C8_ErrorAndEnvelopePropagated ==
    \A c \in Callers :
        (calls[c].pc = "done" /\ calls[c].sends >= 1
           /\ SendReturned(calls[c]).err # NoErr)
        => /\ calls[c].err = SendReturned(calls[c]).err
           /\ calls[c].response = SendReturned(calls[c]).response
           /\ calls[c].raw.kind = "http"
              => /\ calls[c].response # Nil
                 /\ calls[c].response.code = calls[c].raw.code
                 /\ calls[c].response.bytes = calls[c].raw.body

\* FilterShare Add has returned the 404 envelope with its body and the error
\* of the send.
C8_Witness ==
    \E c \in Callers :
        /\ calls[c].method = "FilterShare.Add"
        /\ calls[c].pc = "done"
        /\ calls[c].sends = 1
        /\ calls[c].err = ErrStatus
        /\ calls[c].response # Nil
        /\ calls[c].response.code = 404
        /\ calls[c].response.bytes = bodyHTML

\* The optional parameters of the invocation in s, each with whether its
\* input is set.
OptionalParameters(s) ==
    IF s.method = "ProjectVersion.Search"
    THEN {<<kExpand, ~s.args.options.nil /\ Len(s.args.options.Expand) # 0>>,
          <<kQuery, ~s.args.options.nil /\ Len(s.args.options.Query) # 0>>,
          <<kStatus, ~s.args.options.nil /\ Len(s.args.options.Status) # 0>>,
          <<kOrderBy, ~s.args.options.nil /\ Len(s.args.options.OrderBy) # 0>>}
    ELSE IF s.method = "ProjectVersion.Get"
    THEN {<<kExpand, Len(s.args.expand) # 0>>}
    ELSE IF s.method = "IssueMetadata.Get"
    THEN {<<kOverrideScreenSecurity, s.args.overrideScreenSecurity>>,
          <<kOverrideEditableFlag, s.args.overrideEditableFlag>>}
    ELSE IF s.method = "IssueMetadata.Create"
    THEN {<<kProjectIds, ~s.args.opts.nil /\ Len(s.args.opts.ProjectIDs) # 0>>,
          <<kProjectKeys, ~s.args.opts.nil /\ Len(s.args.opts.ProjectKeys) # 0>>,
          <<kIssuetypeIds, ~s.args.opts.nil /\ Len(s.args.opts.IssueTypeIDs) # 0>>,
          <<kIssuetypeNames, ~s.args.opts.nil /\ Len(s.args.opts.IssueTypeNames) # 0>>,
          <<kExpand, ~s.args.opts.nil /\ Len(s.args.opts.Expand) # 0>>}
    ELSE {}

\* The path of the invocation in s when it is ProjectVersion Get or
\* IssueMetadata Get.
BarePath(s) ==
    IF s.method = "ProjectVersion.Get" THEN pathVersionSlash \o s.args.versionID
    ELSE pathIssue2 \o s.args.issueKeyOrID \o pathEditMeta

\* C9: in ProjectVersion Search and Get and IssueMetadata Get and Create, an
\* optional parameter is in the built endpoint if and only if its input is
\* set; with no optional input set, ProjectVersion Get and IssueMetadata Get
\* build the bare path with no '?'.
C9_OptionalParametersOnlyWhenSet ==
    \A c \in Callers :
        calls[c].builds = 1
        => /\ \A p \in OptionalParameters(calls[c]) :
                 HasKey(calls[c].endpoint, p[1]) <=> p[2]
           /\ (calls[c].method \in {"ProjectVersion.Get", "IssueMetadata.Get"}
                 /\ \A p \in OptionalParameters(calls[c]) : ~p[2])
              => /\ calls[c].endpoint = BarePath(calls[c])
                 /\ ~Contains(calls[c].endpoint, <<"?">>)

\* Search has built its endpoint with expand set and status not set.
C9_Witness ==
    \E c \in Callers :
        /\ calls[c].method = "ProjectVersion.Search"
        /\ calls[c].builds = 1
        /\ ~calls[c].args.options.nil
        /\ calls[c].args.options.Expand = <<vOp, vIs>>
        /\ calls[c].args.options.Status = <<>>
        /\ HasKey(calls[c].endpoint, kExpand)
        /\ ~HasKey(calls[c].endpoint, kStatus)

\* The HTTP method and the path the claim gives for a share-permission
\* method with the filterID and permissionID of s.
SharePermissionTarget(s) ==
    IF s.method = "FilterShare.Gets"
    THEN [method |-> "GET",
          path |-> pathFilter \o Itoa(s.args.filterID) \o pathPermission]
    ELSE IF s.method = "FilterShare.Add"
    THEN [method |-> "POST",
          path |-> pathFilter \o Itoa(s.args.filterID) \o pathPermission]
    ELSE IF s.method = "FilterShare.Get"
    THEN [method |-> "GET",
          path |-> pathFilter \o Itoa(s.args.filterID) \o pathPermission \o <<"/">>
                      \o Itoa(s.args.permissionID)]
    ELSE [method |-> "DELETE",
          path |-> pathFilter \o Itoa(s.args.filterID) \o pathPermission \o <<"/">>
                      \o Itoa(s.args.permissionID)]

\* C11: for every filterID and permissionID, FilterShare Gets (GET) and Add
\* (POST) target exactly rest/api/2/filter/<filterID>/permission, and Get
\* (GET) and Delete (DELETE) target exactly
\* rest/api/2/filter/<filterID>/permission/<permissionID>; none of the four
\* endpoints carries a query string.
C11_SharePermissionPaths ==
    \A c \in Callers :
        (calls[c].method \in {"FilterShare.Gets", "FilterShare.Add", "FilterShare.Get",
                              "FilterShare.Delete"}
           /\ calls[c].builds = 1)
        => /\ calls[c].endpoint = SharePermissionTarget(calls[c]).path
           /\ ~Contains(calls[c].endpoint, <<"?">>)
           /\ QueryOf(calls[c].endpoint) = <<>>
           /\ calls[c].request # Nil
           /\ calls[c].request.method = SharePermissionTarget(calls[c]).method
           /\ calls[c].request.endpoint = calls[c].endpoint

\* Get for filter 12 and permission 1 has built and sent its request to
\* rest/api/2/filter/12/permission/1.
C11_Witness ==
    \E c \in Callers :
        /\ calls[c].method = "FilterShare.Get"
        /\ calls[c].args.filterID = 12
        /\ calls[c].args.permissionID = 1
        /\ calls[c].pc = "done"
        /\ calls[c].sends = 1
        /\ calls[c].request.method = "GET"
        /\ calls[c].request.endpoint =
                              <<"r", "e", "s", "t", "/", "a", "p",
                              "i", "/", "2", "/", "f", "i", "l", "t",
                              "e", "r", "/", "1", "2", "/", "p", "e",
                              "r", "m", "i", "s", "s", "i", "o", "n",
                              "/", "1">>

\* C12: whenever a method returns an error, the result it returns is nil (the
\* zero gjson.Result for IssueMetadata); Watcher Get returns a nil result
\* when the send succeeded and the body does not decode as JSON.
C12_ResultNilOnError ==
    \A c \in Callers :
        (calls[c].pc = "done" /\ calls[c].err # NoErr)
        => calls[c].result \in {Nil, GjsonZero}

====
